---- MODULE Spec2Model ----
(***************************************************************************)
(* Wallet ledger of the booking marketplace: the request handlers of the  *)
(* route table that move money (create booking, update booking status,    *)
(* create deposit, update deposit status, admin balance adjustment) and   *)
(* the storage operations they call.  Every awaited storage call is one   *)
(* step of a request, so requests interleave exactly where the handlers   *)
(* await.  Amounts are whole dollars.                                      *)
(***************************************************************************)
EXTENDS Integers, Sequences, FiniteSets, TLC

\* ------------------------------------------------------------------ bounds
NumReq == 2                     \* request slots served in one behaviour
MaxTokens == 2                  \* handshake tokens minted in one behaviour
MaxMsgs == 2                    \* client messages handled in one behaviour
MaxTicks == 2                   \* advances of the clock in one behaviour

\* -------------------------------------------------------- program constants
TxHashMaxLen == 500             \* deposits.txHash is varchar(500)
FallbackBTC == 97000
FallbackETH == 3400
FallbackUSDT == 1
FallbackOther == 1
TokenTtl == 60000               \* expires: Date.now() + 60000

\* ------------------------------------------------------------ input domains
Req == 1..NumReq
Users == {"u1", "u2"}
NoUser == "nobody"              \* an id with no row in users
Admin == "admin"                \* the user whose role is admin
Anonymous == "anonymous"        \* a caller without a session: req.isAuthenticated() is false
Conns == {1, 2}                 \* WebSocket connections
TickMs == 30000                 \* the clock advances in steps of half the token's lifetime
NoToken == 0                    \* message.token absent or empty
UnknownToken == MaxTokens + 1   \* a string that generateWsToken never returned
Celebs == {1, 2}
NoCeleb == 0                    \* an id with no row in celebrities
BookingStatuses == {"pending", "confirmed", "completed", "cancelled"}
DepositStatuses == {"pending", "approved", "rejected"}
TxHashLens == {0, 64, 501}      \* a txHash is modelled by its length; 0 = absent
DepositAmounts == {50}
AdjustAmounts == {-30, 25}
Coins == {"BTC"}
LivePrices == {50000}
UserBodyKeys == {"balanceUsd", "phone"}   \* the column a PATCH /api/admin/users/:id body sets
BodyBalances == {999}
NewPrices == {45}                \* body.priceUsd of PATCH /api/celebrities/:id

\* the ledger starts with one booking of u1 already made and one deposit of u1 pending
OpeningBalance == [u \in Users |-> IF u = "u1" THEN 130 ELSE 10]
InitLedger == {[user |-> "u1", delta |-> -30, kind |-> "bookingDebit", ref |-> 1, req |-> 0]}
OpeningPrice == [c \in Celebs |-> IF c = 1 THEN 80 ELSE 30]

VARIABLES
  balance,        \* users.balanceUsd, per user id
  celebrities,    \* celebrities.priceUsd, per celebrity id
  bookings,       \* rows of bookings, id = index
  deposits,       \* rows of deposits, id = index
  notifications,  \* rows of notifications (a set: the order of the rows plays no role)
  adminLogs,      \* rows of admin_logs (a set)
  lock,           \* row lock on a users row: the request whose transaction holds it, 0 if free
  rq,             \* per request slot: inputs, position in the handler, locals, response
  ledger,         \* history: every committed change of a balance, with its cause
  messages,       \* rows of messages (a set)
  wsClients,      \* Map userId -> connection
  wsAuthTokens,   \* Map token -> [userId, expires]
  conns,          \* per connection: readyState and the local userId of its handlers
  now,            \* Date.now()
  outbox,         \* per connection: what the server has sent on it, in order
  minted,         \* history: every token generateWsToken returned, token = index
  used,           \* history: the tokens that have authenticated a connection
  lastMsg,        \* history: the client message handled last, and how many were handled
  lastAuth        \* history: per user, the connection of the latest successful authentication

vars == <<balance, celebrities, bookings, deposits, notifications, adminLogs, lock, rq, ledger,
          messages, wsClients, wsAuthTokens, conns, now, outbox, minted, used, lastMsg, lastAuth>>
channel == <<wsClients, wsAuthTokens, conns, now, outbox>>
history == <<minted, used, lastMsg, lastAuth>>
persisted == <<balance, celebrities, bookings, deposits, notifications, adminLogs>>

\* ----------------------------------------------------------------- helpers
RECURSIVE SumDelta(_)
SumDelta(S) ==
  IF S = {} THEN 0
  ELSE LET e == CHOOSE x \in S : TRUE IN e.delta + SumDelta(S \ {e})

\* A request slot.  Inputs: userId (session user, or the :id of the admin route), refId
\* (celebrityId or the :id of the booking/deposit, 0 = no such row), status (body.status;
\* body.coin for a deposit creation), txHash, amount.  Locals: price, snap* (the row read
\* by getBooking/getDeposit/select), tx* (writes of the open transaction), newId, lookup
\* (how the price fetch ended), caller (who sends a request that enters through the
\* middleware; "" for a request taken up at its handler).
\* History: prior, failedAt.  Response: code, msg.
Idle ==
  [kind |-> "idle", pc |-> "idle", userId |-> NoUser, refId |-> 0, status |-> "",
   txHash |-> 0, amount |-> 0, price |-> 0, snapStatus |-> "", snapUser |-> NoUser,
   snapAmount |-> 0, txBalance |-> 0, txDebited |-> FALSE, txInserted |-> FALSE,
   newId |-> 0, lookup |-> "", caller |-> "", prior |-> {}, failedAt |-> "", code |-> 0,
   msg |-> ""]

Started(r) == rq[r].kind # "idle"
Finished(r) == rq[r].pc = "done"
CanStart(r) == rq[r].kind = "idle" /\ (IF r = 1 THEN TRUE ELSE Started(r - 1))
\* a request as it arrives; prior (history) = the requests already answered by then
Arrive(r, kind, pc) ==
  [Idle EXCEPT !.kind = kind, !.pc = pc, !.prior = {q \in Req : rq[q].pc = "done"}]

\* res.status(code).json(...): the handler returns and its locals are gone
Answer(r, code, msg) ==
  [rq EXCEPT ![r] = [Idle EXCEPT !.kind = rq[r].kind, !.pc = "done", !.userId = rq[r].userId,
                                 !.refId = rq[r].refId, !.status = rq[r].status,
                                 !.txHash = rq[r].txHash, !.amount = rq[r].amount,
                                 !.prior = rq[r].prior, !.newId = rq[r].newId,
                                 !.caller = rq[r].caller,
                                 !.code = code, !.msg = msg]]

\* a UPDATE of one users row: waits while another transaction holds the row lock
RowFree(u) == u \in Users => lock[u] = 0

\* users.balanceUsd = balanceUsd + amount where id = u; no row, no change
updateUserBalance(u, amount, kind, ref, r) ==
  IF u \in Users
  THEN /\ balance' = [balance EXCEPT ![u] = @ + amount]
       /\ ledger' = ledger \cup {[user |-> u, delta |-> amount, kind |-> kind, ref |-> ref, req |-> r]}
  ELSE UNCHANGED <<balance, ledger>>

createNotification(u, type, r) ==
  notifications' = notifications \cup {[userId |-> u, type |-> type, isRead |-> FALSE, req |-> r]}

createAdminLog(action, r) ==
  adminLogs' = adminLogs \cup {[action |-> action, req |-> r]}

\* every open connection that authenticated as the user, registered or superseded
PushTargetsEveryChannelOf(userId) ==
  {c \in Conns : conns[c].state = "open" /\ conns[c].userId = userId}

\* const client = wsClients.get(userId); if (client && client.readyState === WebSocket.OPEN)
PushTargets(userId) ==
  {c \in Conns : /\ userId \in DOMAIN wsClients
                 /\ wsClients[userId] = c
                 /\ conns[c].state = "open"}

\* broadcastToUser: client.send(JSON.stringify(data))
broadcastToUser(userId, type) ==
  outbox' = [c \in Conns |-> IF c \in PushTargets(userId) THEN Append(outbox[c], type)
                             ELSE outbox[c]]

\* -------------------------------------------------------------------- Init
Init ==
  /\ balance = [u \in Users |-> OpeningBalance[u] + SumDelta({e \in InitLedger : e.user = u})]
  /\ celebrities = OpeningPrice
  /\ bookings = <<[userId |-> "u1", celebrityId |-> 2, priceUsd |-> 30, status |-> "pending", req |-> 0]>>
  /\ deposits = <<[userId |-> "u1", amountUsd |-> 50, coin |-> "BTC", cryptoAmountExpected |-> [whole |-> 0, frac |-> 100000],
                   txHash |-> 0, status |-> "pending", req |-> 0]>>
  /\ notifications = {}
  /\ adminLogs = {}
  /\ lock = [u \in Users |-> 0]
  /\ rq = [r \in Req |-> Idle]
  /\ ledger = InitLedger
  /\ messages = {}
  /\ wsClients = <<>>
  /\ wsAuthTokens = <<>>
  /\ conns = [c \in Conns |-> [state |-> "none", userId |-> NoUser]]
  /\ now = 0
  /\ outbox = [c \in Conns |-> <<>>]
  /\ minted = <<>>
  /\ used = {}
  /\ lastMsg = [seq |-> 0, conn |-> 0, type |-> "", token |-> NoToken]
  /\ lastAuth = [u \in Users |-> 0]

\* ------------------------------------------------------ POST /api/bookings
\* (for an id without a row the other inputs play no role: one choice of them is kept)
StartCreateBooking(r) ==
  /\ CanStart(r)
  /\ \E u \in Users, c \in Celebs \cup {NoCeleb} :
       /\ c = NoCeleb => u = "u1"
       /\ rq' = [rq EXCEPT ![r] = [Arrive(r, "createBooking", "getCelebrity") EXCEPT
                                            !.userId = u, !.refId = c]]
  /\ UNCHANGED <<persisted, lock, ledger>>
  /\ UNCHANGED <<messages, channel, history>>

GetCelebrity(r) ==
  /\ rq[r].kind = "createBooking" /\ rq[r].pc = "getCelebrity"
  /\ IF rq[r].refId \in DOMAIN celebrities
     THEN rq' = [rq EXCEPT ![r].pc = "txSelect", ![r].price = celebrities[rq[r].refId]]
     ELSE rq' = Answer(r, 404, "Celebrity not found")
  /\ UNCHANGED <<persisted, lock, ledger>>
  /\ UNCHANGED <<messages, channel, history>>

\* the select without for("update"): the row is read but not locked
TxSelectNoLock(r) ==
  /\ rq[r].kind = "createBooking" /\ rq[r].pc = "txSelect"
  /\ rq' = [rq EXCEPT ![r].pc = "txDebit", ![r].snapAmount = balance[rq[r].userId]]
  /\ UNCHANGED <<persisted, lock, ledger>>
  /\ UNCHANGED <<messages, channel, history>>

\* the select taking a lock on the whole users table (LOCK TABLE) instead of on the row:
\* it waits while any row of the table is locked
TxSelectTableLock(r) ==
  /\ rq[r].kind = "createBooking" /\ rq[r].pc = "txSelect"
  /\ IF rq[r].userId \in Users
     THEN /\ \A u \in Users : lock[u] = 0
          /\ lock' = [lock EXCEPT ![rq[r].userId] = r]
          /\ rq' = [rq EXCEPT ![r].pc = "txDebit", ![r].snapAmount = balance[rq[r].userId]]
     ELSE /\ rq' = Answer(r, 404, "User not found")
          /\ UNCHANGED lock
  /\ UNCHANGED <<persisted, ledger>>
  /\ UNCHANGED <<messages, channel, history>>

\* tx.select().from(users).where(id = userId).for("update")
TxSelectForUpdate(r) ==
  /\ rq[r].kind = "createBooking" /\ rq[r].pc = "txSelect"
  /\ IF rq[r].userId \in Users
     THEN /\ lock[rq[r].userId] = 0
          /\ lock' = [lock EXCEPT ![rq[r].userId] = r]
          /\ rq' = [rq EXCEPT ![r].pc = "txDebit", ![r].snapAmount = balance[rq[r].userId]]
     ELSE /\ rq' = Answer(r, 404, "User not found")
          /\ UNCHANGED lock
  /\ UNCHANGED <<persisted, ledger>>
  /\ UNCHANGED <<messages, channel, history>>

\* the debit issued on the pool connection (db.update) instead of the transaction (tx.update):
\* it is committed at once and the rollback does not undo it
DebitOutsideTx(r) ==
  /\ rq[r].kind = "createBooking" /\ rq[r].pc = "txDebit"
  /\ IF rq[r].snapAmount < rq[r].price
     THEN /\ rq' = Answer(r, 400, "Insufficient wallet balance")
          /\ lock' = [lock EXCEPT ![rq[r].userId] = 0]
          /\ UNCHANGED <<balance, ledger>>
     ELSE /\ rq' = [rq EXCEPT ![r].pc = "txInsert"]
          /\ updateUserBalance(rq[r].userId, 0 - rq[r].price, "bookingDebit", Len(bookings) + 1, r)
          /\ UNCHANGED lock
  /\ UNCHANGED <<celebrities, bookings, deposits, notifications, adminLogs>>
  /\ UNCHANGED <<messages, channel, history>>

\* the balance check left out: the debit is made whatever the balance
DebitWithoutCheck(r) ==
  /\ rq[r].kind = "createBooking" /\ rq[r].pc = "txDebit"
  /\ rq' = [rq EXCEPT ![r].pc = "txInsert", ![r].txDebited = TRUE,
                       ![r].txBalance = balance[rq[r].userId] - rq[r].price]
  /\ UNCHANGED <<persisted, lock, ledger>>
  /\ UNCHANGED <<messages, channel, history>>

\* the balance check, then either the throw (rollback) or the UPDATE inside the transaction
TxCheckAndDebit(r) ==
  /\ rq[r].kind = "createBooking" /\ rq[r].pc = "txDebit"
  /\ IF rq[r].snapAmount < rq[r].price
     THEN /\ rq' = Answer(r, 400, "Insufficient wallet balance")
          /\ lock' = [lock EXCEPT ![rq[r].userId] = 0]
     ELSE /\ rq' = [rq EXCEPT ![r].pc = "txInsert", ![r].txDebited = TRUE,
                              ![r].txBalance = balance[rq[r].userId] - rq[r].price]
          /\ UNCHANGED lock
  /\ UNCHANGED <<persisted, ledger>>
  /\ UNCHANGED <<messages, channel, history>>

\* tx.insert(bookings).values(data)
TxInsertBooking(r) ==
  /\ rq[r].kind = "createBooking" /\ rq[r].pc = "txInsert"
  /\ rq' = [rq EXCEPT ![r].pc = "txCommit", ![r].txInserted = TRUE]
  /\ UNCHANGED <<persisted, lock, ledger>>
  /\ UNCHANGED <<messages, channel, history>>

\* the transaction callback returns and the COMMIT is executed: both writes become visible, the row lock is released
TxCommit(r) ==
  /\ rq[r].kind = "createBooking" /\ rq[r].pc = "txCommit"
  /\ LET u == rq[r].userId IN
       /\ balance' = [balance EXCEPT ![u] = IF rq[r].txDebited THEN rq[r].txBalance ELSE @]
       /\ ledger' = IF rq[r].txDebited
                    THEN ledger \cup {[user |-> u, delta |-> rq[r].txBalance - balance[u],
                                       kind |-> "bookingDebit", ref |-> Len(bookings) + 1, req |-> r]}
                    ELSE ledger
       /\ bookings' = IF rq[r].txInserted
                      THEN Append(bookings, [userId |-> u, celebrityId |-> rq[r].refId,
                                             priceUsd |-> rq[r].price, status |-> "pending", req |-> r])
                      ELSE bookings
       /\ lock' = [lock EXCEPT ![u] = 0]
       /\ rq' = [rq EXCEPT ![r].pc = "notify", ![r].newId = Len(bookings) + 1]
  /\ UNCHANGED <<celebrities, deposits, notifications, adminLogs>>
  /\ UNCHANGED <<messages, channel, history>>

\* storage.createNotification, then broadcastToUser and res.status(201).json(booking)
BookingNotify(r) ==
  /\ rq[r].kind = "createBooking" /\ rq[r].pc = "notify"
  /\ createNotification(rq[r].userId, "booking", r)
  /\ rq' = Answer(r, 201, "")
  /\ UNCHANGED <<balance, celebrities, bookings, deposits, adminLogs, lock, ledger>>
  /\ broadcastToUser(rq[r].userId, "notification")
  /\ UNCHANGED <<messages, wsClients, wsAuthTokens, conns, now, history>>


\* ------------------------------------------------------- a storage call throws
\* Any awaited storage call can reject (connection loss, statement error).  Inside
\* the transaction the rejection rolls the transaction back; every handler's catch
\* block then answers 400 with the error's message.
StorageCallPcs ==
  {"getCelebrity", "txSelect", "txDebit", "txInsert", "txCommit", "notify",
   "getBooking", "updateBookingStatus", "refund", "adminLog",
   "createDeposit",
   "getDeposit", "credit", "updateDepositStatus",
   "adjust", "updateUser", "userAdminLog", "updateCelebrity", "celebrityAdminLog",
   "getUser", "accessCheck", "createMessage", "targetLookup"}

StorageFail(r) ==
  /\ rq[r].pc \in StorageCallPcs
  /\ rq[r].pc = "txDebit" => rq[r].snapAmount >= rq[r].price   \* the UPDATE is issued only then
  /\ rq' = [Answer(r, 400, "storage error") EXCEPT ![r].failedAt = rq[r].pc]
  /\ lock' = [u \in Users |-> IF lock[u] = r THEN 0 ELSE lock[u]]
  /\ UNCHANGED <<persisted, ledger>>
  /\ UNCHANGED <<messages, channel, history>>

BookingNext ==
  \E r \in Req :
    \/ StartCreateBooking(r)
    \/ GetCelebrity(r)
    \/ TxSelectForUpdate(r)
    \/ TxCheckAndDebit(r)
    \/ TxInsertBooking(r)
    \/ TxCommit(r)
    \/ BookingNotify(r)
    \/ StorageFail(r)

SpecBooking == Init /\ [][BookingNext]_vars

\* --------------------------------------------- PATCH /api/bookings/:id/status
StartBookingStatus(r) ==
  /\ CanStart(r)
  /\ \E id \in DOMAIN bookings \cup {0}, st \in BookingStatuses :
       /\ id = 0 => st = "cancelled"
       /\ rq' = [rq EXCEPT ![r] = [Arrive(r, "bookingStatus", "getBooking") EXCEPT
                                            !.refId = id, !.status = st]]
  /\ UNCHANGED <<persisted, lock, ledger>>
  /\ UNCHANGED <<messages, channel, history>>

GetBooking(r) ==
  /\ rq[r].kind = "bookingStatus" /\ rq[r].pc = "getBooking"
  /\ IF rq[r].refId \in DOMAIN bookings
     THEN LET b == bookings[rq[r].refId] IN
            rq' = [rq EXCEPT ![r].pc = "updateBookingStatus", ![r].snapStatus = b.status,
                             ![r].snapUser = b.userId, ![r].snapAmount = b.priceUsd]
     ELSE rq' = Answer(r, 404, "Booking not found")
  /\ UNCHANGED <<persisted, lock, ledger>>
  /\ UNCHANGED <<messages, channel, history>>

\* storage.updateBookingStatus(id, status), then the handler's test for the refund
UpdateBookingStatus(r) ==
  /\ rq[r].kind = "bookingStatus" /\ rq[r].pc = "updateBookingStatus"
  /\ bookings' = [bookings EXCEPT ![rq[r].refId].status = rq[r].status]
  /\ rq' = [rq EXCEPT ![r].pc = IF rq[r].status = "cancelled" /\ rq[r].snapStatus = "pending"
                                THEN "refund" ELSE "notify"]
  /\ UNCHANGED <<balance, celebrities, deposits, notifications, adminLogs, lock, ledger>>
  /\ UNCHANGED <<messages, channel, history>>

\* the refund taken from the offering's price of the moment instead of the booking row
BookingRefundCurrentPrice(r) ==
  /\ rq[r].kind = "bookingStatus" /\ rq[r].pc = "refund"
  /\ RowFree(rq[r].snapUser)
  /\ updateUserBalance(rq[r].snapUser, celebrities[bookings[rq[r].refId].celebrityId],
                       "refund", rq[r].refId, r)
  /\ rq' = [rq EXCEPT ![r].pc = "notify"]
  /\ UNCHANGED <<celebrities, bookings, deposits, notifications, adminLogs, lock>>
  /\ UNCHANGED <<messages, channel, history>>

\* storage.updateUserBalance(booking.userId, parseFloat(booking.priceUsd))
BookingRefund(r) ==
  /\ rq[r].kind = "bookingStatus" /\ rq[r].pc = "refund"
  /\ RowFree(rq[r].snapUser)
  /\ updateUserBalance(rq[r].snapUser, rq[r].snapAmount, "refund", rq[r].refId, r)
  /\ rq' = [rq EXCEPT ![r].pc = "notify"]
  /\ UNCHANGED <<celebrities, bookings, deposits, notifications, adminLogs, lock>>
  /\ UNCHANGED <<messages, channel, history>>

BookingStatusNotify(r) ==
  /\ rq[r].kind = "bookingStatus" /\ rq[r].pc = "notify"
  /\ createNotification(rq[r].snapUser, "booking", r)
  /\ rq' = [rq EXCEPT ![r].pc = "adminLog"]
  /\ UNCHANGED <<balance, celebrities, bookings, deposits, adminLogs, lock, ledger>>
  /\ UNCHANGED <<messages, channel, history>>

\* storage.createAdminLog, then broadcastToUser and res.json(updatedBooking)
BookingStatusAdminLog(r) ==
  /\ rq[r].kind = "bookingStatus" /\ rq[r].pc = "adminLog"
  /\ createAdminLog("Updated booking status", r)
  /\ rq' = Answer(r, 200, "")
  /\ UNCHANGED <<balance, celebrities, bookings, deposits, notifications, lock, ledger>>
  /\ broadcastToUser(rq[r].snapUser, "booking_update")
  /\ UNCHANGED <<messages, wsClients, wsAuthTokens, conns, now, history>>


\* ------------------------------------------------------ POST /api/deposits
COINGECKO_IDS == {"BTC", "ETH", "USDT"}

\* outcome of the fetch: "ok" (the body carries live as the usd price), "nodata"
\* (the body has no entry for the coin), "throw" (fetch or json() rejects)
getCryptoPrice(coin, outcome, live) ==
  IF coin \notin COINGECKO_IDS THEN 1
  ELSE IF outcome = "ok" THEN (IF live = 0 THEN 1 ELSE live)
  ELSE IF outcome = "nodata" THEN 1
  ELSE IF coin = "USDT" THEN FallbackUSDT
  ELSE IF coin = "BTC" THEN FallbackBTC
  ELSE IF coin = "ETH" THEN FallbackETH
  ELSE FallbackOther

\* (amountUsd / price).toFixed(8) by long division: the integer part and the eight
\* decimals (as a number below 10^8), rounded on the ninth decimal
RECURSIVE FracDigits(_, _, _)
FracDigits(rem, price, n) ==
  IF n = 0 THEN 0
  ELSE ((rem * 10) \div price) * (10 ^ (n - 1)) + FracDigits((rem * 10) % price, price, n - 1)

RECURSIVE FracRest(_, _, _)
FracRest(rem, price, n) ==
  IF n = 0 THEN rem ELSE FracRest((rem * 10) % price, price, n - 1)

CryptoAmount(amountUsd, price) ==
  LET whole == amountUsd \div price
      frac == FracDigits(amountUsd % price, price, 8)
      up == IF 2 * FracRest(amountUsd % price, price, 8) >= price THEN 1 ELSE 0
  IN IF frac + up = 100000000
     THEN [whole |-> whole + 1, frac |-> 0]
     ELSE [whole |-> whole, frac |-> frac + up]

StartCreateDeposit(r) ==
  /\ CanStart(r)
  /\ \E u \in Users, a \in DepositAmounts, c \in Coins :
       rq' = [rq EXCEPT ![r] = [Arrive(r, "createDeposit", "getCryptoPrice") EXCEPT
                                            !.userId = u, !.amount = a, !.status = c]]
  /\ UNCHANGED <<persisted, lock, ledger>>
  /\ UNCHANGED <<messages, channel, history>>

GetCryptoPrice(r) ==
  /\ rq[r].kind = "createDeposit" /\ rq[r].pc = "getCryptoPrice"
  /\ \E outcome \in {"ok", "nodata", "throw"}, live \in LivePrices :
       rq' = [rq EXCEPT ![r].pc = "createDeposit", ![r].lookup = outcome,
                        ![r].price = getCryptoPrice(rq[r].status, outcome, live)]
  /\ UNCHANGED <<persisted, lock, ledger>>
  /\ UNCHANGED <<messages, channel, history>>

\* storage.getSetting (a read) and storage.createDeposit
CreateDeposit(r) ==
  /\ rq[r].kind = "createDeposit" /\ rq[r].pc = "createDeposit"
  /\ deposits' = Append(deposits,
       [userId |-> rq[r].userId, amountUsd |-> rq[r].amount, coin |-> rq[r].status,
        cryptoAmountExpected |-> CryptoAmount(rq[r].amount, rq[r].price),
        txHash |-> 0, status |-> "pending", req |-> r])
  /\ rq' = [rq EXCEPT ![r].pc = "notify", ![r].newId = Len(deposits) + 1]
  /\ UNCHANGED <<balance, celebrities, bookings, notifications, adminLogs, lock, ledger>>
  /\ UNCHANGED <<messages, channel, history>>

\* storage.createNotification, then res.status(201).json(deposit)
DepositNotify(r) ==
  /\ rq[r].kind = "createDeposit" /\ rq[r].pc = "notify"
  /\ createNotification(rq[r].userId, "deposit", r)
  /\ rq' = Answer(r, 201, "")
  /\ UNCHANGED <<balance, celebrities, bookings, deposits, adminLogs, lock, ledger>>
  /\ UNCHANGED <<messages, channel, history>>


\* --------------------------------------------- PATCH /api/deposits/:id/status
StartDepositStatus(r) ==
  /\ CanStart(r)
  /\ \E id \in DOMAIN deposits \cup {0}, st \in DepositStatuses, h \in TxHashLens :
       /\ id = 0 => (st = "approved" /\ h = 0)
       /\ rq' = [rq EXCEPT ![r] = [Arrive(r, "depositStatus", "getDeposit") EXCEPT
                                            !.refId = id, !.status = st, !.txHash = h]]
  /\ UNCHANGED <<persisted, lock, ledger>>
  /\ UNCHANGED <<messages, channel, history>>

\* the handler's test reduced to deposit.status === "pending": any status update of a
\* pending deposit credits
GetDepositCreditAnyStatus(r) ==
  /\ rq[r].kind = "depositStatus" /\ rq[r].pc = "getDeposit"
  /\ IF rq[r].refId \in DOMAIN deposits
     THEN LET d == deposits[rq[r].refId] IN
            rq' = [rq EXCEPT ![r].pc = IF d.status = "pending"
                                       THEN "credit" ELSE "updateDepositStatus",
                             ![r].snapStatus = d.status, ![r].snapUser = d.userId,
                             ![r].snapAmount = d.amountUsd]
     ELSE rq' = Answer(r, 404, "Deposit not found")
  /\ UNCHANGED <<persisted, lock, ledger>>
  /\ UNCHANGED <<messages, channel, history>>

\* storage.getDeposit(id), then the handler's test for the credit
GetDeposit(r) ==
  /\ rq[r].kind = "depositStatus" /\ rq[r].pc = "getDeposit"
  /\ IF rq[r].refId \in DOMAIN deposits
     THEN LET d == deposits[rq[r].refId] IN
            rq' = [rq EXCEPT ![r].pc = IF rq[r].status = "approved" /\ d.status = "pending"
                                       THEN "credit" ELSE "updateDepositStatus",
                             ![r].snapStatus = d.status, ![r].snapUser = d.userId,
                             ![r].snapAmount = d.amountUsd]
     ELSE rq' = Answer(r, 404, "Deposit not found")
  /\ UNCHANGED <<persisted, lock, ledger>>
  /\ UNCHANGED <<messages, channel, history>>

\* the credit recomputed from the expected crypto amount at the rate of the approval
DepositCreditRepriced(r) ==
  /\ rq[r].kind = "depositStatus" /\ rq[r].pc = "credit"
  /\ RowFree(rq[r].snapUser)
  /\ LET c == deposits[rq[r].refId].cryptoAmountExpected
         usd == c.whole * FallbackBTC + ((c.frac \div 1000) * FallbackBTC) \div 100000 IN
       updateUserBalance(rq[r].snapUser, usd, "depositCredit", rq[r].refId, r)
  /\ rq' = [rq EXCEPT ![r].pc = "updateDepositStatus"]
  /\ UNCHANGED <<celebrities, bookings, deposits, notifications, adminLogs, lock>>
  /\ UNCHANGED <<messages, channel, history>>

\* storage.updateUserBalance(deposit.userId, parseFloat(deposit.amountUsd))
DepositCredit(r) ==
  /\ rq[r].kind = "depositStatus" /\ rq[r].pc = "credit"
  /\ RowFree(rq[r].snapUser)
  /\ updateUserBalance(rq[r].snapUser, rq[r].snapAmount, "depositCredit", rq[r].refId, r)
  /\ rq' = [rq EXCEPT ![r].pc = "updateDepositStatus"]
  /\ UNCHANGED <<celebrities, bookings, deposits, notifications, adminLogs, lock>>
  /\ UNCHANGED <<messages, channel, history>>

\* storage.updateDepositStatus(id, status, txHash)
updateDepositStatus(id, status, txHash) ==
  [deposits EXCEPT ![id].status = status,
                   ![id].txHash = IF txHash # 0 THEN txHash ELSE @]

UpdateDepositStatus(r) ==
  /\ rq[r].kind = "depositStatus" /\ rq[r].pc = "updateDepositStatus"
  /\ IF rq[r].txHash > TxHashMaxLen
     THEN /\ rq' = Answer(r, 400, "value too long for type character varying(500)")
          /\ UNCHANGED deposits
     ELSE /\ deposits' = updateDepositStatus(rq[r].refId, rq[r].status, rq[r].txHash)
          /\ rq' = [rq EXCEPT ![r].pc = "notify"]
  /\ UNCHANGED <<balance, celebrities, bookings, notifications, adminLogs, lock, ledger>>
  /\ UNCHANGED <<messages, channel, history>>

DepositStatusNotify(r) ==
  /\ rq[r].kind = "depositStatus" /\ rq[r].pc = "notify"
  /\ createNotification(rq[r].snapUser, "deposit", r)
  /\ rq' = [rq EXCEPT ![r].pc = "adminLog"]
  /\ UNCHANGED <<balance, celebrities, bookings, deposits, adminLogs, lock, ledger>>
  /\ UNCHANGED <<messages, channel, history>>

\* storage.createAdminLog, then broadcastToUser and res.json(updatedDeposit)
DepositStatusAdminLog(r) ==
  /\ rq[r].kind = "depositStatus" /\ rq[r].pc = "adminLog"
  /\ createAdminLog("Updated deposit status", r)
  /\ rq' = Answer(r, 200, "")
  /\ UNCHANGED <<balance, celebrities, bookings, deposits, notifications, lock, ledger>>
  /\ broadcastToUser(rq[r].snapUser, "deposit_update")
  /\ UNCHANGED <<messages, wsClients, wsAuthTokens, conns, now, history>>


\* ------------------------------------------ PATCH /api/admin/users/:id/balance
StartAdjust(r) ==
  /\ CanStart(r)
  /\ \E u \in Users \cup {NoUser}, a \in AdjustAmounts :
       rq' = [rq EXCEPT ![r] = [Arrive(r, "adjust", "adjust") EXCEPT
                                            !.userId = u, !.amount = a]]
  /\ UNCHANGED <<persisted, lock, ledger>>
  /\ UNCHANGED <<messages, channel, history>>

\* the adjustment with a floor: an amount that would leave the balance negative is refused
AdjustBalanceFloored(r) ==
  /\ rq[r].kind = "adjust" /\ rq[r].pc = "adjust"
  /\ RowFree(rq[r].userId)
  /\ IF rq[r].userId \in Users /\ balance[rq[r].userId] + rq[r].amount < 0
     THEN /\ rq' = Answer(r, 400, "Insufficient wallet balance")
          /\ UNCHANGED <<balance, ledger>>
     ELSE /\ updateUserBalance(rq[r].userId, rq[r].amount, "adjust", 0, r)
          /\ rq' = [rq EXCEPT ![r].pc = "adminLog"]
  /\ UNCHANGED <<celebrities, bookings, deposits, notifications, adminLogs, lock>>
  /\ UNCHANGED <<messages, channel, history>>

\* storage.updateUserBalance(id, parseFloat(amount))
AdjustBalance(r) ==
  /\ rq[r].kind = "adjust" /\ rq[r].pc = "adjust"
  /\ RowFree(rq[r].userId)
  /\ updateUserBalance(rq[r].userId, rq[r].amount, "adjust", 0, r)
  /\ rq' = [rq EXCEPT ![r].pc = "adminLog"]
  /\ UNCHANGED <<celebrities, bookings, deposits, notifications, adminLogs, lock>>
  /\ UNCHANGED <<messages, channel, history>>

AdjustAdminLog(r) ==
  /\ rq[r].kind = "adjust" /\ rq[r].pc = "adminLog"
  /\ createAdminLog("Adjusted user balance", r)
  /\ rq' = [rq EXCEPT ![r].pc = "notify"]
  /\ UNCHANGED <<balance, celebrities, bookings, deposits, notifications, lock, ledger>>
  /\ UNCHANGED <<messages, channel, history>>

\* notifications.userId references users.id: the insert for an unknown user is rejected
AdjustNotify(r) ==
  /\ rq[r].kind = "adjust" /\ rq[r].pc = "notify"
  /\ IF rq[r].userId \in Users
     THEN /\ createNotification(rq[r].userId, "wallet", r)
          /\ rq' = Answer(r, 200, "")
     ELSE /\ rq' = Answer(r, 400, "violates foreign key constraint")
          /\ UNCHANGED notifications
  /\ UNCHANGED <<balance, celebrities, bookings, deposits, adminLogs, lock, ledger>>
  /\ UNCHANGED <<messages, channel, history>>


\* -------------------------------------------------- PATCH /api/admin/users/:id
\* req.body goes to storage.updateUser as it is: status holds the column it names,
\* amount its value when the column is balanceUsd
StartUpdateUser(r) ==
  /\ CanStart(r)
  /\ \E u \in Users \cup {NoUser}, k \in UserBodyKeys, a \in BodyBalances :
       /\ u = NoUser => k = "balanceUsd"
       /\ rq' = [rq EXCEPT ![r] = [Arrive(r, "updateUser", "updateUser") EXCEPT
                                     !.userId = u, !.status = k,
                                     !.amount = IF k = "balanceUsd" THEN a ELSE 0]]
  /\ UNCHANGED <<persisted, lock, ledger>>
  /\ UNCHANGED <<messages, channel, history>>

\* users.set({...data, updatedAt}) where id = u
updateUser(u, key, value) ==
  IF u \in Users /\ key = "balanceUsd"
  THEN [balance EXCEPT ![u] = value]
  ELSE balance

UpdateUser(r) ==
  /\ rq[r].kind = "updateUser" /\ rq[r].pc = "updateUser"
  /\ RowFree(rq[r].userId)
  /\ balance' = updateUser(rq[r].userId, rq[r].status, rq[r].amount)
  /\ rq' = [rq EXCEPT ![r].pc = "userAdminLog"]
  /\ UNCHANGED <<celebrities, bookings, deposits, notifications, adminLogs, lock, ledger>>
  /\ UNCHANGED <<messages, channel, history>>

\* storage.createAdminLog, then res.json(user)
UpdateUserAdminLog(r) ==
  /\ rq[r].kind = "updateUser" /\ rq[r].pc = "userAdminLog"
  /\ createAdminLog("Updated user", r)
  /\ rq' = Answer(r, 200, "")
  /\ UNCHANGED <<balance, celebrities, bookings, deposits, notifications, lock, ledger>>
  /\ UNCHANGED <<messages, channel, history>>

\* --------------------------------------------------- PATCH /api/celebrities/:id
StartUpdateCelebrity(r) ==
  /\ CanStart(r)
  /\ \E c \in Celebs \cup {NoCeleb}, p \in NewPrices :
       rq' = [rq EXCEPT ![r] = [Arrive(r, "updateCelebrity", "updateCelebrity") EXCEPT
                                     !.refId = c, !.amount = p]]
  /\ UNCHANGED <<persisted, lock, ledger>>
  /\ UNCHANGED <<messages, channel, history>>

\* celebrities.set(data) where id = c; no row, no change
updateCelebrity(c, price) ==
  IF c \in DOMAIN celebrities THEN [celebrities EXCEPT ![c] = price] ELSE celebrities

UpdateCelebrity(r) ==
  /\ rq[r].kind = "updateCelebrity" /\ rq[r].pc = "updateCelebrity"
  /\ celebrities' = updateCelebrity(rq[r].refId, rq[r].amount)
  /\ rq' = [rq EXCEPT ![r].pc = "celebrityAdminLog"]
  /\ UNCHANGED <<balance, bookings, deposits, notifications, adminLogs, lock, ledger>>
  /\ UNCHANGED <<messages, channel, history>>

\* storage.createAdminLog, then res.json(celebrity)
UpdateCelebrityAdminLog(r) ==
  /\ rq[r].kind = "updateCelebrity" /\ rq[r].pc = "celebrityAdminLog"
  /\ createAdminLog("Updated celebrity", r)
  /\ rq' = Answer(r, 200, "")
  /\ UNCHANGED <<balance, celebrities, bookings, deposits, notifications, lock, ledger>>
  /\ UNCHANGED <<messages, channel, history>>

\* ------------------------------------- isAuthenticated, isAdmin (admin routes)
\* the requests of the three admin routes on the ledger, by anybody
AdminRequests ==
  {[kind |-> "bookingStatus", userId |-> NoUser, refId |-> i, status |-> "cancelled", amount |-> 0]
     : i \in DOMAIN bookings}
  \cup {[kind |-> "depositStatus", userId |-> NoUser, refId |-> i, status |-> "approved", amount |-> 0]
     : i \in DOMAIN deposits}
  \cup {[kind |-> "adjust", userId |-> u, refId |-> 0, status |-> "", amount |-> a]
     : u \in Users, a \in AdjustAmounts}

Role(u) == IF u = Admin THEN "admin" ELSE "user"

\* the first storage call of the route's handler
HandlerEntry(kind) ==
  IF kind = "bookingStatus" THEN "getBooking"
  ELSE IF kind = "depositStatus" THEN "getDeposit" ELSE "adjust"

\* the request arrives and isAuthenticated runs
StartAdminRoute(r) ==
  /\ CanStart(r)
  /\ \E q \in AdminRequests, caller \in {Anonymous, Admin} \cup Users :
       LET arrived == [Arrive(r, q.kind, "isAdmin") EXCEPT
                         !.caller = caller, !.userId = q.userId, !.refId = q.refId,
                         !.status = q.status, !.amount = q.amount] IN
         rq' = IF caller = Anonymous
               THEN [rq EXCEPT ![r] = [arrived EXCEPT !.pc = "done", !.code = 401,
                                                      !.msg = "Unauthorized"]]
               ELSE [rq EXCEPT ![r] = arrived]
  /\ UNCHANGED <<persisted, lock, ledger>>
  /\ UNCHANGED <<messages, channel, history>>

\* isAdmin with the test of the role left out: any user with a row passes
IsAdminAnyUser(r) ==
  /\ rq[r].pc = "isAdmin"
  /\ \E found \in BOOLEAN :
       rq' = IF ~found THEN Answer(r, 401, "Unauthorized")
             ELSE [rq EXCEPT ![r].pc = HandlerEntry(rq[r].kind)]
  /\ UNCHANGED <<persisted, lock, ledger>>
  /\ UNCHANGED <<messages, channel, history>>

\* isAdmin: storage.getUser(sub) rejects (401), or the role is tested (403 or next())
IsAdmin(r) ==
  /\ rq[r].pc = "isAdmin"
  /\ \E found \in BOOLEAN :
       rq' = IF ~found THEN Answer(r, 401, "Unauthorized")
             ELSE IF Role(rq[r].caller) # "admin"
                  THEN Answer(r, 403, "Forbidden - Admin access required")
                  ELSE [rq EXCEPT ![r].pc = HandlerEntry(rq[r].kind)]
  /\ UNCHANGED <<persisted, lock, ledger>>
  /\ UNCHANGED <<messages, channel, history>>

\* ------------------------------------------------------ the WebSocket server
\* Map.set and Map.delete
MapSet(map, k, v) == [x \in DOMAIN map \cup {k} |-> IF x = k THEN v ELSE map[x]]
MapDelete(map, k) == [x \in DOMAIN map \ {k} |-> map[x]]

\* what a client can send: an auth message with a token that was minted, with a string that
\* never was, or with no token; a message of another type; a text that is not JSON
ClientMessages ==
  {[type |-> "auth", token |-> t] : t \in (1..Len(minted)) \cup {NoToken, UnknownToken}}
    \cup {[type |-> "ping", token |-> NoToken], [type |-> "unparsable", token |-> NoToken]}

\* wss.on("connection"): let userId = null
WsConnect(c) ==
  /\ conns[c].state = "none"
  /\ IF c = 1 THEN TRUE ELSE conns[c - 1].state # "none"
  /\ conns' = [conns EXCEPT ![c] = [state |-> "open", userId |-> NoUser]]
  /\ UNCHANGED <<persisted, lock, rq, ledger, messages, wsClients, wsAuthTokens, now, outbox, history>>

\* GET /api/auth/ws-token: generateWsToken(userId)
GenerateWsToken(u) ==
  /\ Len(minted) < MaxTokens
  /\ LET token == Len(minted) + 1
         data == [userId |-> u, expires |-> now + TokenTtl] IN
       /\ wsAuthTokens' = MapSet(wsAuthTokens, token, data)
       /\ minted' = Append(minted, data)
  /\ UNCHANGED <<persisted, lock, rq, ledger, messages, wsClients, conns, now, outbox, used, lastMsg, lastAuth>>

\* the reply the message handler sends, "none" if it sends nothing
AuthReply(m) ==
  IF m.type = "auth" /\ m.token # NoToken
  THEN IF m.token \in DOMAIN wsAuthTokens /\ wsAuthTokens[m.token].expires > now
       THEN "auth_success" ELSE "auth_error"
  ELSE "none"

\* the message handler without wsAuthTokens.delete(message.token)
WsMessageKeepToken(c) ==
  /\ conns[c].state = "open"
  /\ lastMsg.seq < MaxMsgs
  /\ \E m \in ClientMessages :
       LET reply == AuthReply(m) IN
         /\ IF reply = "auth_success"
            THEN LET userId == wsAuthTokens[m.token].userId IN
                   /\ conns' = [conns EXCEPT ![c].userId = userId]
                   /\ wsClients' = MapSet(wsClients, userId, c)
                   /\ used' = used \cup {m.token}
                   /\ lastAuth' = [lastAuth EXCEPT ![userId] = c]
            ELSE UNCHANGED <<conns, wsClients, used, lastAuth>>
         /\ outbox' = IF reply = "none" THEN outbox ELSE [outbox EXCEPT ![c] = Append(@, reply)]
         /\ lastMsg' = [seq |-> lastMsg.seq + 1, conn |-> c, type |-> m.type, token |-> m.token]
  /\ UNCHANGED <<persisted, lock, rq, ledger, messages, wsAuthTokens, now, minted>>

\* ws.on("message")
WsMessage(c) ==
  /\ conns[c].state = "open"
  /\ lastMsg.seq < MaxMsgs
  /\ \E m \in ClientMessages :
       LET reply == AuthReply(m) IN
         /\ IF reply = "auth_success"
            THEN LET userId == wsAuthTokens[m.token].userId IN
                   /\ conns' = [conns EXCEPT ![c].userId = userId]
                   /\ wsClients' = MapSet(wsClients, userId, c)
                   /\ wsAuthTokens' = MapDelete(wsAuthTokens, m.token)
                   /\ used' = used \cup {m.token}
                   /\ lastAuth' = [lastAuth EXCEPT ![userId] = c]
            ELSE UNCHANGED <<conns, wsClients, wsAuthTokens, used, lastAuth>>
         /\ outbox' = IF reply = "none" THEN outbox ELSE [outbox EXCEPT ![c] = Append(@, reply)]
         /\ lastMsg' = [seq |-> lastMsg.seq + 1, conn |-> c, type |-> m.type, token |-> m.token]
  /\ UNCHANGED <<persisted, lock, rq, ledger, messages, now, minted>>

\* ws.on("close")
WsClose(c) ==
  /\ conns[c].state = "open"
  /\ conns' = [conns EXCEPT ![c].state = "closed"]
  /\ wsClients' = IF conns[c].userId # NoUser THEN MapDelete(wsClients, conns[c].userId)
                  ELSE wsClients
  /\ UNCHANGED <<persisted, lock, rq, ledger, messages, wsAuthTokens, now, outbox, history>>

\* time passes
Tick ==
  /\ now < MaxTicks * TickMs
  /\ now' = now + TickMs
  /\ UNCHANGED <<persisted, lock, rq, ledger, messages, wsClients, wsAuthTokens, conns, outbox, history>>

\* ------------------------------------------------------- POST /api/messages
\* userId = the sender, refId = body.referenceId of a thread of type "booking"
StartMessage(r) ==
  /\ CanStart(r)
  /\ \E u \in Users \cup {Admin}, id \in DOMAIN bookings \cup {0} :
       /\ id = 0 => u = "u1"
       /\ rq' = [rq EXCEPT ![r] = [Arrive(r, "message", "getUser") EXCEPT
                                     !.userId = u, !.refId = id, !.status = "booking"]]
  /\ UNCHANGED <<persisted, lock, ledger, messages, channel, history>>

\* storage.getUser(userId); snapStatus = user.role
MessageGetUser(r) ==
  /\ rq[r].kind = "message" /\ rq[r].pc = "getUser"
  /\ rq' = IF rq[r].userId = Admin
           THEN [rq EXCEPT ![r].pc = "createMessage", ![r].snapStatus = "admin"]
           ELSE [rq EXCEPT ![r].pc = "accessCheck", ![r].snapStatus = "user"]
  /\ UNCHANGED <<persisted, lock, ledger, messages, channel, history>>

\* storage.getBooking(referenceId) and the test of its owner
MessageAccessCheck(r) ==
  /\ rq[r].kind = "message" /\ rq[r].pc = "accessCheck"
  /\ rq' = IF rq[r].refId \in DOMAIN bookings /\ bookings[rq[r].refId].userId = rq[r].userId
           THEN [rq EXCEPT ![r].pc = "createMessage"]
           ELSE Answer(r, 403, "Access denied to this conversation")
  /\ UNCHANGED <<persisted, lock, ledger, messages, channel, history>>

\* storage.createMessage; a user's message is then sent to every open connection of the
\* server (wss.clients.forEach) and answered, an admin's goes on to look up its target
CreateMessage(r) ==
  /\ rq[r].kind = "message" /\ rq[r].pc = "createMessage"
  /\ messages' = messages \cup {[referenceId |-> rq[r].refId, sender |-> rq[r].snapStatus, req |-> r]}
  /\ IF rq[r].snapStatus = "admin"
     THEN /\ rq' = [rq EXCEPT ![r].pc = "targetLookup"]
          /\ UNCHANGED outbox
     ELSE /\ rq' = Answer(r, 201, "")
          /\ outbox' = [c \in Conns |-> IF conns[c].state = "open"
                                         THEN Append(outbox[c], "new_message") ELSE outbox[c]]
  /\ UNCHANGED <<persisted, lock, ledger, wsClients, wsAuthTokens, conns, now, history>>

\* storage.getBooking(referenceId), broadcastToUser(targetUserId, new_message), res.status(201)
MessageTarget(r) ==
  /\ rq[r].kind = "message" /\ rq[r].pc = "targetLookup"
  /\ IF rq[r].refId \in DOMAIN bookings
     THEN broadcastToUser(bookings[rq[r].refId].userId, "new_message")
     ELSE UNCHANGED outbox
  /\ rq' = Answer(r, 201, "")
  /\ UNCHANGED <<persisted, lock, ledger, messages, wsClients, wsAuthTokens, conns, now, history>>

\* ------------------------------------------ /api/notifications (read flags)
\* A row is identified by the request that inserted it: each request inserts at most one
\* row, and the id column is generated, so no two rows share it.
NotificationIds == Req \cup {0}     \* 0: an id without a row

\* the UPDATE flipping the flag instead of setting it
markNotificationToggled(id) ==
  notifications' = {IF n.req = id THEN [n EXCEPT !.isRead = ~ @] ELSE n : n \in notifications}

\* update(notifications).set({ isRead: true }).where(id = id)
markNotificationRead(id) ==
  notifications' = {IF n.req = id THEN [n EXCEPT !.isRead = TRUE] ELSE n : n \in notifications}

\* update(notifications).set({ isRead: true }).where(userId = userId)
markAllNotificationsRead(userId) ==
  notifications' = {IF n.userId = userId THEN [n EXCEPT !.isRead = TRUE] ELSE n : n \in notifications}

\* PATCH /api/notifications/:id/read of a signed-in caller: one storage call, then the
\* answer ({success: true}; a call that rejects writes nothing and is answered 500, which
\* leaves every variable as it was)
MarkNotificationRead ==
  /\ \E id \in NotificationIds : markNotificationRead(id)
  /\ UNCHANGED <<balance, celebrities, bookings, deposits, adminLogs, lock, rq, ledger>>
  /\ UNCHANGED <<messages, channel, history>>

\* POST /api/notifications/read-all: userId = req.user.claims.sub
MarkAllNotificationsRead ==
  /\ \E userId \in Users : markAllNotificationsRead(userId)
  /\ UNCHANGED <<balance, celebrities, bookings, deposits, adminLogs, lock, rq, ledger>>
  /\ UNCHANGED <<messages, channel, history>>

\* ------------------------------------------------------------ specification
Next ==
  \/ \E c \in Conns : WsConnect(c)
  \/ \E u \in Users : GenerateWsToken(u)
  \/ \E c \in Conns : WsMessage(c)
  \/ \E c \in Conns : WsClose(c)
  \/ Tick
  \/ \E r \in Req :
       \/ StartCreateBooking(r)
       \/ GetCelebrity(r)
       \/ TxSelectForUpdate(r)
       \/ TxCheckAndDebit(r)
       \/ TxInsertBooking(r)
       \/ TxCommit(r)
       \/ BookingNotify(r)
       \/ StartBookingStatus(r)
       \/ GetBooking(r)
       \/ UpdateBookingStatus(r)
       \/ BookingRefund(r)
       \/ BookingStatusNotify(r)
       \/ BookingStatusAdminLog(r)
       \/ StartCreateDeposit(r)
       \/ GetCryptoPrice(r)
       \/ CreateDeposit(r)
       \/ DepositNotify(r)
       \/ StartDepositStatus(r)
       \/ GetDeposit(r)
       \/ DepositCredit(r)
       \/ UpdateDepositStatus(r)
       \/ DepositStatusNotify(r)
       \/ DepositStatusAdminLog(r)
       \/ StartAdjust(r)
       \/ AdjustBalance(r)
       \/ AdjustAdminLog(r)
       \/ AdjustNotify(r)
       \/ StartUpdateUser(r)
       \/ UpdateUser(r)
       \/ UpdateUserAdminLog(r)
       \/ StartUpdateCelebrity(r)
       \/ UpdateCelebrity(r)
       \/ UpdateCelebrityAdminLog(r)
       \/ StartMessage(r)
       \/ MessageGetUser(r)
       \/ MessageAccessCheck(r)
       \/ CreateMessage(r)
       \/ MessageTarget(r)
       \/ StartAdminRoute(r)
       \/ IsAdmin(r)
       \/ StorageFail(r)
  \/ MarkNotificationRead
  \/ MarkAllNotificationsRead

Spec == Init /\ [][Next]_vars

\* behaviours made of one kind of request only: create booking (BookingNext above),
\* update deposit status, update booking status
DepositStatusNext ==
  \E r \in Req :
    \/ StartDepositStatus(r)
    \/ GetDeposit(r)
    \/ DepositCredit(r)
    \/ UpdateDepositStatus(r)
    \/ DepositStatusNotify(r)
    \/ DepositStatusAdminLog(r)
    \/ StorageFail(r)

SpecDepositStatus == Init /\ [][DepositStatusNext]_vars

BookingStatusNext ==
  \E r \in Req :
    \/ StartBookingStatus(r)
    \/ GetBooking(r)
    \/ UpdateBookingStatus(r)
    \/ BookingRefund(r)
    \/ BookingStatusNotify(r)
    \/ BookingStatusAdminLog(r)
    \/ StorageFail(r)

SpecBookingStatus == Init /\ [][BookingStatusNext]_vars

\* admin balance adjustments next to create-booking requests
AdjustNext ==
  \E r \in Req :
    \/ StartAdjust(r)
    \/ AdjustBalance(r)
    \/ AdjustAdminLog(r)
    \/ AdjustNotify(r)
    \/ StartCreateBooking(r)
    \/ GetCelebrity(r)
    \/ TxSelectForUpdate(r)
    \/ TxCheckAndDebit(r)
    \/ TxInsertBooking(r)
    \/ TxCommit(r)
    \/ BookingNotify(r)
    \/ StorageFail(r)

SpecAdjust == Init /\ [][AdjustNext]_vars

\* balance adjustments and booking creations whose storage calls all succeed
LedgerNext ==
  \E r \in Req :
    \/ StartAdjust(r)
    \/ AdjustBalance(r)
    \/ AdjustAdminLog(r)
    \/ AdjustNotify(r)
    \/ StartCreateBooking(r)
    \/ GetCelebrity(r)
    \/ TxSelectForUpdate(r)
    \/ TxCheckAndDebit(r)
    \/ TxInsertBooking(r)
    \/ TxCommit(r)
    \/ BookingNotify(r)

SpecLedger == Init /\ [][LedgerNext]_vars

\* notifications inserted by balance adjustments, and the two routes that mark them read
NotificationNext ==
  \/ \E r \in Req :
       \/ StartAdjust(r)
       \/ AdjustBalance(r)
       \/ AdjustAdminLog(r)
       \/ AdjustNotify(r)
  \/ MarkNotificationRead
  \/ MarkAllNotificationsRead

SpecNotification == Init /\ [][NotificationNext]_vars

\* bookings and the offerings' prices: creation, price update, status update (every
\* storage call succeeds)
PriceNext ==
  \E r \in Req :
    \/ StartCreateBooking(r)
    \/ GetCelebrity(r)
    \/ TxSelectForUpdate(r)
    \/ TxCheckAndDebit(r)
    \/ TxInsertBooking(r)
    \/ TxCommit(r)
    \/ BookingNotify(r)
    \/ StartUpdateCelebrity(r)
    \/ UpdateCelebrity(r)
    \/ UpdateCelebrityAdminLog(r)
    \/ StartBookingStatus(r)
    \/ GetBooking(r)
    \/ UpdateBookingStatus(r)
    \/ BookingRefund(r)
    \/ BookingStatusNotify(r)
    \/ BookingStatusAdminLog(r)

SpecPrice == Init /\ [][PriceNext]_vars

\* the admin's writes to a users row: balance adjustment and profile update
AdminUserNext ==
  \E r \in Req :
    \/ StartAdjust(r)
    \/ AdjustBalance(r)
    \/ AdjustAdminLog(r)
    \/ AdjustNotify(r)
    \/ StartUpdateUser(r)
    \/ UpdateUser(r)
    \/ UpdateUserAdminLog(r)
    \/ StorageFail(r)

SpecAdminUser == Init /\ [][AdminUserNext]_vars

\* the admin routes on the ledger, entered through the middleware (every storage call of
\* the handlers succeeds)
GuardNext ==
  \E r \in Req :
    \/ StartAdminRoute(r)
    \/ IsAdmin(r)
    \/ GetBooking(r)
    \/ UpdateBookingStatus(r)
    \/ BookingRefund(r)
    \/ BookingStatusNotify(r)
    \/ BookingStatusAdminLog(r)
    \/ GetDeposit(r)
    \/ DepositCredit(r)
    \/ UpdateDepositStatus(r)
    \/ DepositStatusNotify(r)
    \/ DepositStatusAdminLog(r)
    \/ AdjustBalance(r)
    \/ AdjustAdminLog(r)
    \/ AdjustNotify(r)

SpecGuard == Init /\ [][GuardNext]_vars

\* deposits: creation and status updates (every storage call succeeds)
DepositNext ==
  \E r \in Req :
    \/ StartCreateDeposit(r)
    \/ GetCryptoPrice(r)
    \/ CreateDeposit(r)
    \/ DepositNotify(r)
    \/ StartDepositStatus(r)
    \/ GetDeposit(r)
    \/ DepositCredit(r)
    \/ UpdateDepositStatus(r)
    \/ DepositStatusNotify(r)
    \/ DepositStatusAdminLog(r)

SpecDeposit == Init /\ [][DepositNext]_vars

\* the push channel alone: connections, tokens, the clock
ChannelNext ==
  \/ \E c \in Conns : WsConnect(c)
  \/ \E u \in Users : GenerateWsToken(u)
  \/ \E c \in Conns : WsMessage(c)
  \/ \E c \in Conns : WsClose(c)
  \/ Tick

SpecChannel == Init /\ [][ChannelNext]_vars

\* the same with the one thing that happens by itself: time passes
SpecChannelFair == SpecChannel /\ WF_vars(Tick)

\* the handlers that push and the channel they push on (the clock stands still and every
\* storage call succeeds)
PushNext ==
  \/ \E c \in Conns : WsConnect(c)
  \/ \E u \in Users : GenerateWsToken(u)
  \/ \E c \in Conns : WsMessage(c)
  \/ \E c \in Conns : WsClose(c)
  \/ \E r \in Req :
       \/ StartMessage(r)
       \/ MessageGetUser(r)
       \/ MessageAccessCheck(r)
       \/ CreateMessage(r)
       \/ MessageTarget(r)

SpecPush == Init /\ [][PushNext]_vars

\* ==================================================================== claims
RECURSIVE SumPrice(_)
SumPrice(ids) ==
  IF ids = {} THEN 0
  ELSE LET i == CHOOSE x \in ids : TRUE IN bookings[i].priceUsd + SumPrice(ids \ {i})

BookingsOf(u) == {i \in DOMAIN bookings : bookings[i].userId = u}
RowsBy(r) == {i \in DOMAIN bookings : bookings[i].req = r}
DebitsFor(i) == {e \in ledger : e.kind = "bookingDebit" /\ e.ref = i}
DebitsBy(r) == {e \in ledger : e.kind = "bookingDebit" /\ e.req = r}
Insufficient(r) == rq[r].pc = "done" /\ rq[r].msg = "Insufficient wallet balance"
StorageError(r) == rq[r].pc = "done" /\ rq[r].msg = "storage error"

\* the balance is the opening balance less the prices of the bookings that committed
BalanceMatchesBookings ==
  \A u \in Users : balance[u] = OpeningBalance[u] - SumPrice(BookingsOf(u))

\* two requests of u1 for the celebrity priced 80, the balance being 100
Scenario80(r1, r2) ==
  /\ r1 # r2
  /\ \A r \in {r1, r2} : /\ rq[r].kind = "createBooking" /\ rq[r].userId = "u1"
                         /\ rq[r].refId = 1 /\ rq[r].pc = "done"
  /\ \A q \in Req \ {r1, r2} : rq[q].kind = "idle"

\* C1: with only create-booking requests, in every interleaving the balance of a user is
\* the opening balance less the sum of the prices of the committed bookings, it is never
\* negative, and every committed booking has exactly one debit, of its price; with balance
\* 100 and two requests priced 80 that both ran to the balance check, exactly one commits,
\* the other is answered "Insufficient wallet balance", and the balance ends at 20.
C1_ConcurrentBookings ==
  /\ BalanceMatchesBookings
  /\ \A u \in Users : balance[u] >= 0
  /\ \A i \in DOMAIN bookings :
       /\ Cardinality(DebitsFor(i)) = 1
       /\ \A e \in DebitsFor(i) : e.delta = 0 - bookings[i].priceUsd /\ e.user = bookings[i].userId
  /\ \A e \in ledger : e.kind = "bookingDebit" => e.ref \in DOMAIN bookings
  /\ \A r1, r2 \in Req :
       Scenario80(r1, r2) =>
         /\ Cardinality(RowsBy(r1) \cup RowsBy(r2)) <= 1
         /\ (~StorageError(r1) /\ ~StorageError(r2)) =>
              /\ Cardinality(RowsBy(r1) \cup RowsBy(r2)) = 1
              /\ (RowsBy(r1) = {} => Insufficient(r1))
              /\ (RowsBy(r2) = {} => Insufficient(r2))
              /\ balance["u1"] = 20

C1_Witness ==
  \E r1, r2 \in Req :
    /\ Scenario80(r1, r2)
    /\ RowsBy(r1) # {} /\ rq[r1].code = 201
    /\ Insufficient(r2) /\ RowsBy(r2) = {}
    /\ balance["u1"] = 20

\* C2: once a create-booking request has been answered, whether it committed or was
\* aborted at any step, a booking row made by it exists if and only if the balance of
\* its user was debited by it, and the debit is the price stored in the row.
C2_DebitAndRowTogether ==
  /\ \A r \in Req :
       (rq[r].kind = "createBooking" /\ rq[r].pc = "done") =>
         /\ (RowsBy(r) # {} <=> DebitsBy(r) # {})
         /\ Cardinality(RowsBy(r)) <= 1 /\ Cardinality(DebitsBy(r)) <= 1
         /\ \A i \in RowsBy(r), e \in DebitsBy(r) :
              e.ref = i /\ e.delta = 0 - bookings[i].priceUsd /\ e.user = bookings[i].userId
  /\ (\A r \in Req : rq[r].pc \in {"idle", "done"}) => BalanceMatchesBookings

\* one request committed, another was aborted inside the transaction after its debit
C2_Witness ==
  \E r1, r2 \in Req :
    /\ rq[r1].kind = "createBooking" /\ rq[r1].pc = "done" /\ RowsBy(r1) # {} /\ DebitsBy(r1) # {}
    /\ rq[r2].kind = "createBooking" /\ StorageError(r2)
    /\ rq[r2].failedAt \in {"txInsert", "txCommit"}
    /\ RowsBy(r2) = {} /\ DebitsBy(r2) = {}

\* C3: a create-booking request that finds the balance lower than the price is answered
\* 400 "Insufficient wallet balance" in that step, which changes no persisted record; and
\* a request answered so has left no booking row, debit, notification or admin log.
C3_InsufficientStep ==
  \A r \in Req :
    (rq[r].kind = "createBooking" /\ rq[r].pc = "txDebit"
       /\ rq[r].snapAmount < rq[r].price /\ rq'[r] # rq[r]) =>
      /\ rq'[r].pc = "done" /\ rq'[r].code = 400
      /\ rq'[r].msg = "Insufficient wallet balance"
      /\ UNCHANGED <<persisted, ledger>>

C3_InsufficientLeavesNothing ==
  \A r \in Req :
    Insufficient(r) =>
      /\ rq[r].code = 400
      /\ RowsBy(r) = {} /\ DebitsBy(r) = {}
      /\ \A n \in notifications : n.req # r
      /\ \A l \in adminLogs : l.req # r
      /\ \A e \in ledger : e.req # r

C3_InsufficientNoPartialWrite ==
  [][C3_InsufficientStep]_vars /\ []C3_InsufficientLeavesNothing

C3_Witness ==
  \E r \in Req : Insufficient(r) /\ rq[r].userId = "u1" /\ rq[r].refId = 1

\* ---------------------------------------------------- update deposit status
Quiescent == \A r \in Req : rq[r].pc \in {"idle", "done"}
CreditsFor(id) == {e \in ledger : e.kind = "depositCredit" /\ e.ref = id}
CreditsBy(r) == {e \in ledger : e.kind = "depositCredit" /\ e.req = r}
Approval(r, id) == rq[r].kind = "depositStatus" /\ rq[r].status = "approved" /\ rq[r].refId = id

\* r2 arrived after r1 was answered, both approve deposit id, no other request names it
ApprovedTwiceInARow(r1, r2, id) ==
  /\ r1 # r2 /\ Approval(r1, id) /\ Approval(r2, id)
  /\ rq[r1].prior = {} /\ r1 \in rq[r2].prior
  /\ \A q \in Req \ {r1, r2} : ~(rq[q].kind = "depositStatus" /\ rq[q].refId = id)

\* C4: when two update-deposit-status requests with status approved for the same pending
\* deposit run one after the other, the balance is credited by the deposit's amount
\* exactly once: the two requests do not both credit, and when both are answered 200 the
\* amount has been credited, by the first.
C4_ApproveTwiceCreditsOnce ==
  \A id \in DOMAIN deposits : \A r1, r2 \in Req :
    ApprovedTwiceInARow(r1, r2, id) =>
      /\ CreditsBy(r1) # {} => CreditsBy(r2) = {}
      /\ (rq[r1].code = 200 /\ rq[r2].code = 200) =>
           /\ CreditsBy(r2) = {}
           /\ SumDelta(CreditsFor(id)) = deposits[id].amountUsd

\* C5: in every interleaving of update-deposit-status requests on one deposit, the total
\* credited to the balance on account of the deposit is at most its recorded amount.
C5_CreditAtMostOnce ==
  \A id \in DOMAIN deposits : SumDelta(CreditsFor(id)) <= deposits[id].amountUsd

\* C6: once the status of a deposit is approved or rejected, no step changes it.
C6_TerminalStatusStep ==
  \A id \in DOMAIN deposits :
    deposits[id].status \in {"approved", "rejected"} => deposits'[id].status = deposits[id].status

C6_TerminalStatusAbsorbing == [][C6_TerminalStatusStep]_vars

\* C7: no step of an update-deposit-status request with status rejected changes the
\* balance of any user, whatever the status of the deposit, and no credit is ever
\* recorded for such a request.
C7_RejectStep ==
  \A r \in Req :
    (rq'[r].kind = "depositStatus" /\ rq'[r].status = "rejected" /\ rq'[r] # rq[r]) =>
      UNCHANGED <<balance, ledger>>

C7_RejectHasNoCredit ==
  \A r \in Req :
    (rq[r].kind = "depositStatus" /\ rq[r].status = "rejected") =>
      \A e \in ledger : e.req # r

C7_RejectNeverMutatesLedger == [][C7_RejectStep]_vars /\ []C7_RejectHasNoCredit

\* a pending deposit has been rejected by a request that ran to its answer
C7_Witness ==
  \E r \in Req :
    /\ rq[r].kind = "depositStatus" /\ rq[r].status = "rejected"
    /\ rq[r].pc = "done" /\ rq[r].code = 200
    /\ rq[r].refId \in DOMAIN deposits /\ deposits[rq[r].refId].status = "rejected"
    /\ rq[r].prior = {}

\* C9: the credit and the new status of an approval are applied together: in no state
\* with no request in progress, also after a failure between the steps of the handler,
\* is a deposit credited while still pending, or approved by a request without a credit.
C9_CreditAndStatusTogether ==
  Quiescent =>
    \A id \in DOMAIN deposits :
      /\ ~(CreditsFor(id) # {} /\ deposits[id].status = "pending")
      /\ \A r \in Req :
           (Approval(r, id) /\ rq[r].prior = {} /\ rq[r].code = 200
              /\ deposits[id].status = "approved") => CreditsFor(id) # {}

\* ---------------------------------------------------- update booking status
RefundsFor(id) == {e \in ledger : e.kind = "refund" /\ e.ref = id}

\* C8: in every interleaving of update-booking-status requests on one booking, the total
\* credited back on account of the booking is zero or exactly the price stored in its row.
C8_RefundOnce ==
  \A id \in DOMAIN bookings : SumDelta(RefundsFor(id)) \in {0, bookings[id].priceUsd}

\* ------------------------------------------------------------- every request
\* C10: the balance of every user is greater than or equal to zero in every state.
C10_BalanceNeverNegative == \A u \in Users : balance[u] >= 0

\* ------------------------------------------------------------ admin adjustment
\* C11: the admin adjustment of an existing user sets the balance to exactly the old
\* balance plus the amount, also when the result is negative (10 adjusted by -30 gives
\* -20), and changes no other balance; a booking debit is refused when the balance is
\* lower than the price, and a committed booking never leaves the balance below zero.
C11_AdjustStep ==
  \A r \in Req :
    (rq[r].kind = "adjust" /\ rq[r].pc = "adjust" /\ rq[r].userId \in Users
       /\ rq'[r] # rq[r] /\ rq'[r].msg # "storage error") =>
      /\ rq'[r].pc = "adminLog"
      /\ balance'[rq[r].userId] = balance[rq[r].userId] + rq[r].amount
      /\ \A v \in Users \ {rq[r].userId} : balance'[v] = balance[v]

C11_BookingStep ==
  \A r \in Req :
    /\ (rq[r].kind = "createBooking" /\ rq[r].pc = "txDebit" /\ rq'[r] # rq[r]
          /\ balance[rq[r].userId] < rq[r].price) =>
         (rq'[r].msg = "Insufficient wallet balance" /\ balance' = balance)
    /\ (rq[r].kind = "createBooking" /\ rq[r].pc = "txCommit" /\ rq'[r].pc = "notify") =>
         (balance'[rq[r].userId] = balance[rq[r].userId] - rq[r].price
            /\ balance'[rq[r].userId] >= 0)

C11_AdjustHasNoFloor == [][C11_AdjustStep /\ C11_BookingStep]_vars

\* u2, whose balance was 10, has been adjusted by -30 and stands at -20
C11_Witness ==
  \E r \in Req :
    /\ rq[r].kind = "adjust" /\ rq[r].pc = "done" /\ rq[r].code = 200
    /\ rq[r].userId = "u2" /\ rq[r].amount = -30
    /\ {e \in ledger : e.user = "u2"} = {[user |-> "u2", delta |-> -30, kind |-> "adjust", ref |-> 0, req |-> r]}
    /\ balance["u2"] = -20

\* C12: in every state the balance of every user is the opening balance plus the sum of
\* the credits and debits applied through the adjust operations (booking debit, refund,
\* deposit credit, admin adjustment); no handler overwrites a balance.
C12_BalanceIsLedgerSum ==
  \A u \in Users : balance[u] = OpeningBalance[u] + SumDelta({e \in ledger : e.user = u})

\* C13: a booking row's price is the offering's price read when the booking was made and
\* is the amount debited for it; no later step changes a stored price, and a refund
\* credits the stored price whatever the offering costs by then.
C13_PriceStep ==
  /\ \A r \in Req :
       /\ (rq[r].pc = "getCelebrity" /\ rq'[r].pc = "txSelect")
            => rq'[r].price = celebrities[rq[r].refId]
       /\ (rq[r].pc \in {"txSelect", "txDebit", "txInsert"} /\ rq'[r].pc # "done")
            => rq'[r].price = rq[r].price
       /\ (rq[r].pc = "txCommit" /\ rq'[r].pc = "notify")
            => /\ bookings' = Append(bookings, bookings'[Len(bookings')])
               /\ bookings'[Len(bookings')].priceUsd = rq[r].price
               /\ \E e \in ledger' :
                    /\ ledger' \ ledger = {e}
                    /\ e.kind = "bookingDebit" /\ e.ref = Len(bookings')
                    /\ e.delta = 0 - rq[r].price
  /\ \A i \in DOMAIN bookings :
       i \in DOMAIN bookings' /\ bookings'[i].priceUsd = bookings[i].priceUsd
  /\ \A e \in ledger' \ ledger :
       e.kind = "refund" => e.delta = bookings[e.ref].priceUsd

C13_PriceMatchesDebit ==
  /\ \A i \in DOMAIN bookings :
       \E e \in ledger : DebitsFor(i) = {e} /\ e.delta = 0 - bookings[i].priceUsd
  /\ \A e \in ledger : e.kind = "refund" => e.delta = bookings[e.ref].priceUsd

C13_PriceCapturedAtCreation == [][C13_PriceStep]_vars /\ []C13_PriceMatchesDebit

\* the offering of the opening booking is repriced, then the booking is cancelled and
\* refunded at its stored price
C13_Witness ==
  \E r1, r2 \in Req :
    /\ rq[r1].kind = "updateCelebrity" /\ rq[r1].code = 200 /\ rq[r1].refId = bookings[1].celebrityId
    /\ rq[r2].kind = "bookingStatus" /\ rq[r2].code = 200 /\ rq[r2].refId = 1 /\ r1 \in rq[r2].prior
    /\ celebrities[bookings[1].celebrityId] # bookings[1].priceUsd
    /\ \E e \in ledger : e.kind = "refund" /\ e.req = r2 /\ e.delta = bookings[1].priceUsd

\* a client message was handled in this step
MessageStep == lastMsg'.seq = lastMsg.seq + 1
Replied(c, reply) == outbox'[c] = Append(outbox[c], reply)

\* C14: an auth message whose token has reached its expiry, or has already authenticated a
\* connection, is answered auth_error and registers nothing; as time only advances and a
\* used token stays used, every later replay fails too.
C14_AuthStep ==
  (MessageStep /\ lastMsg'.type = "auth" /\ lastMsg'.token \in 1..Len(minted)) =>
    LET t == lastMsg'.token IN
      (minted[t].expires <= now \/ t \in used) =>
        /\ Replied(lastMsg'.conn, "auth_error")
        /\ wsClients' = wsClients /\ conns' = conns /\ used' = used

C14_TokenShortLivedSingleUse == [][C14_AuthStep]_vars

\* token 1 is presented at its expiry and once more: two auth_error, nobody registered
C14_Witness ==
  \E c \in Conns :
    /\ lastMsg = [seq |-> 2, conn |-> c, type |-> "auth", token |-> 1]
    /\ Len(minted) >= 1 /\ minted[1].expires <= now
    /\ outbox[c] = <<"auth_error", "auth_error">>
    /\ 1 \notin used /\ DOMAIN wsClients = {}

\* C15: a connection that has not authenticated successfully is never sent a pushed event.
PushTypes == {"notification", "booking_update", "deposit_update", "campaign_update", "new_message"}

C15_NoPushBeforeAuth ==
  \A c \in Conns :
    conns[c].userId = NoUser => \A i \in DOMAIN outbox[c] : outbox[c][i] \notin PushTypes

\* C16: a successful authentication makes its connection the user's entry; an entry is always
\* the connection of the user's latest successful authentication; a push targeted at the
\* user goes to that connection and to no earlier one.
C16_AuthStep ==
  \A c \in Conns :
    (MessageStep /\ Replied(c, "auth_success")) =>
      LET u == minted[lastMsg'.token].userId IN
        /\ u \in DOMAIN wsClients' /\ wsClients'[u] = c
        /\ conns'[c] = [state |-> "open", userId |-> u]

C16_EntryIsLatest ==
  \A u \in Users :
    /\ u \in DOMAIN wsClients => wsClients[u] = lastAuth[u]
    /\ PushTargets(u) \subseteq {lastAuth[u]}

C16_OneChannelLastWins == [][C16_AuthStep]_vars /\ []C16_EntryIsLatest

\* u1 authenticates on connection 1, then on connection 2; both stay open; u1's entry and
\* the target of a push to u1 is connection 2
C16_Witness ==
  /\ conns[1] = [state |-> "open", userId |-> "u1"]
  /\ conns[2] = [state |-> "open", userId |-> "u1"]
  /\ outbox[1] = <<"auth_success">>
  /\ outbox[2] = <<"auth_success">>
  /\ lastMsg.conn = 2
  /\ DOMAIN wsClients = {"u1"} /\ wsClients["u1"] = 2
  /\ PushTargets("u1") = {2}

\* C17: the handling of an auth message sends auth_success or auth_error on its connection.
C17_AuthStep ==
  (MessageStep /\ lastMsg'.type = "auth") =>
    \/ Replied(lastMsg'.conn, "auth_success")
    \/ Replied(lastMsg'.conn, "auth_error")

C17_AuthAlwaysAnswered == [][C17_AuthStep]_vars

\* C18: whenever the live lookup fails or returns no data for the asset, the price the
\* deposit is created with is the asset's static fallback.
StaticFallback(coin) ==
  IF coin = "BTC" THEN FallbackBTC ELSE IF coin = "ETH" THEN FallbackETH
  ELSE IF coin = "USDT" THEN FallbackUSDT ELSE FallbackOther

C18_FallbackWhenLookupFails ==
  \A r \in Req :
    (rq[r].kind = "createDeposit" /\ rq[r].lookup \in {"nodata", "throw"}) =>
      rq[r].price = StaticFallback(rq[r].status)

\* C19: the created row carries amount / rate-at-creation to eight decimals (50 at 50000 is
\* 0.00100000); no step changes a row's amountUsd or cryptoAmountExpected; every deposit
\* credit is the row's amountUsd, and a status update makes no price lookup.
C19_Step ==
  /\ \A r \in Req :
       (rq[r].kind = "createDeposit" /\ rq[r].pc = "createDeposit" /\ rq'[r].pc = "notify") =>
         LET row == deposits'[Len(deposits')] IN
           /\ deposits' = Append(deposits, row)
           /\ row.amountUsd = rq[r].amount
           /\ row.cryptoAmountExpected = CryptoAmount(rq[r].amount, rq[r].price)
           /\ (rq[r].amount = 50 /\ rq[r].price = 50000) =>
                row.cryptoAmountExpected = [whole |-> 0, frac |-> 100000]
  /\ \A i \in DOMAIN deposits :
       /\ i \in DOMAIN deposits'
       /\ deposits'[i].amountUsd = deposits[i].amountUsd
       /\ deposits'[i].cryptoAmountExpected = deposits[i].cryptoAmountExpected
  /\ \A e \in ledger' \ ledger :
       e.kind = "depositCredit" => e.delta = deposits[e.ref].amountUsd

C19_NoLookupAtApproval ==
  \A r \in Req : rq[r].kind = "depositStatus" => rq[r].lookup = "" /\ rq[r].price = 0

C19_RateFrozenAtCreation == [][C19_Step]_vars /\ []C19_NoLookupAtApproval

\* a deposit of 50 created at 50000 and then approved: 0.00100000 expected, 50 credited
C19_Witness ==
  \E r1, r2 \in Req :
    /\ rq[r1].kind = "createDeposit" /\ rq[r1].code = 201 /\ rq[r1].newId = 2
    /\ deposits[2].amountUsd = 50
    /\ deposits[2].cryptoAmountExpected = [whole |-> 0, frac |-> 100000]
    /\ rq[r2].kind = "depositStatus" /\ rq[r2].code = 200 /\ rq[r2].refId = 2
    /\ deposits[2].status = "approved"
    /\ \E e \in ledger : CreditsFor(2) = {e} /\ e.delta = 50 /\ e.req = r2

\* C20: the stored txHash of a deposit changes only in a step that takes the deposit from
\* pending to approved.
C20_TxHashStep ==
  \A i \in DOMAIN deposits :
    deposits'[i].txHash # deposits[i].txHash =>
      deposits[i].status = "pending" /\ deposits'[i].status = "approved"

C20_TxHashOnlyOnApprovalEdge == [][C20_TxHashStep]_vars

\* C21: a balance adjustment for a user id without a row writes no admin log and no
\* notification, and is answered 404 (NotFound).
C21_AdjustUnknownUserNotFound ==
  \A r \in Req :
    (rq[r].kind = "adjust" /\ rq[r].userId \notin Users) =>
      /\ \A l \in adminLogs : l.req # r
      /\ \A n \in notifications : n.req # r
      /\ (rq[r].pc = "done" /\ rq[r].failedAt = "") => rq[r].code = 404

\* C22: a token that sits in the token map past its expiry is eventually removed from it.
C22_ExpiredTokenDiscarded ==
  \A t \in 1..MaxTokens :
    (t \in DOMAIN wsAuthTokens /\ wsAuthTokens[t].expires <= now)
      ~> (t \notin DOMAIN wsAuthTokens)

\* C23: a request on update-booking-status, update-deposit-status or adjust-balance whose
\* caller has no session or is not an admin is answered 401 or 403, never enters the
\* handler, and none of its steps changes a balance, booking, deposit, notification or
\* admin log.
NotAdmin(r) == rq[r].caller \in {Anonymous} \cup Users

C23_Step ==
  \A r \in Req :
    (rq'[r] # rq[r] /\ rq'[r].caller \in {Anonymous} \cup Users) =>
      /\ persisted' = persisted /\ ledger' = ledger
      /\ rq'[r].pc \in {"isAdmin", "done"}

C23_Rejected ==
  \A r \in Req :
    NotAdmin(r) =>
      /\ rq[r].pc = "done" => rq[r].code \in {401, 403}
      /\ rq[r].caller = Anonymous => rq[r].pc = "done" /\ rq[r].code = 401
      /\ \A e \in ledger : e.req # r
      /\ \A n \in notifications : n.req # r
      /\ \A l \in adminLogs : l.req # r

C23_AdminOnly == [][C23_Step]_vars /\ []C23_Rejected

\* an anonymous caller was answered 401 and the user u1, asking for an adjustment, 403;
\* nothing was written
C23_Witness ==
  \E r1, r2 \in Req :
    /\ rq[r1].caller = Anonymous /\ rq[r1].pc = "done" /\ rq[r1].code = 401
    /\ rq[r2].caller = "u1" /\ rq[r2].kind = "adjust" /\ rq[r2].pc = "done" /\ rq[r2].code = 403
    /\ ledger = InitLedger /\ notifications = {} /\ adminLogs = {}

\* C24: no entry of the client map refers to a connection that has closed.
C24_NoEntryForClosedChannel ==
  \A u \in DOMAIN wsClients : conns[wsClients[u]].state # "closed"

\* C27: the close of a connection that is no longer the user's entry leaves the entry of
\* the successor in place, and a push to the user still reaches the successor.
C27_CloseStep ==
  \A c \in Conns :
    (conns[c].state = "open" /\ conns'[c].state = "closed") =>
      \A u \in DOMAIN wsClients :
        wsClients[u] # c => (u \in DOMAIN wsClients' /\ wsClients'[u] = wsClients[u])

C27_SupersededCloseKeepsSuccessor == [][C27_CloseStep]_vars

\* C25: a step that changes the balance of a user is a step of a request on that user, so
\* an operation on A leaves the balance of every other user B as it was; and the next
\* ledger step of a request on A can be taken whenever no other request holds the lock on
\* A's row, whatever is in progress on the rows of other users.
LedgerStep(r) ==
  \/ TxSelectForUpdate(r)
  \/ TxCheckAndDebit(r)
  \/ TxInsertBooking(r)
  \/ TxCommit(r)
  \/ AdjustBalance(r)

AtLedgerStep(r) ==
  \/ rq[r].kind = "createBooking" /\ rq[r].pc \in {"txSelect", "txDebit", "txInsert", "txCommit"}
  \/ rq[r].kind = "adjust" /\ rq[r].pc = "adjust"

C25_Step ==
  \A b \in Users :
    balance'[b] # balance[b] => \E r \in Req : rq'[r] # rq[r] /\ rq[r].userId = b

C25_NotBlocked ==
  \A r \in Req :
    (AtLedgerStep(r) /\ rq[r].userId \in Users /\ lock[rq[r].userId] \in {0, r}) =>
      ENABLED LedgerStep(r)

SameNotification(n, m) == n.req = m.req /\ n.userId = m.userId /\ n.type = m.type

C26_Step ==
  /\ \A n \in notifications :
       \E m \in notifications' : SameNotification(n, m) /\ (n.isRead => m.isRead)
  /\ \A m \in notifications' :
       \/ \E n \in notifications : SameNotification(n, m)
       \/ ~ m.isRead

C26_OneRowPerId ==
  \A n, m \in notifications : n.req = m.req => n = m

C26_ReadFlagMonotonic == [][C26_Step]_vars /\ []C26_OneRowPerId

\* two notifications were inserted; one has been marked read, the other is still unread
C26_Witness ==
  \E n, m \in notifications : n.isRead /\ ~ m.isRead /\ n.userId = m.userId

\* C28: in every state with no update-deposit-status request in progress, a deposit is
\* approved if and only if its amount has been credited exactly once. (Checked where it
\* is weakest: the requests ran one after the other and none of them failed.)
OneAfterTheOther ==
  \A r1, r2 \in Req : (r1 < r2 /\ Started(r2)) => r1 \in rq[r2].prior

NoneFailed ==
  \A r \in Req : rq[r].pc = "done" => (rq[r].failedAt = "" /\ rq[r].code \in {200, 404})

CreditedOnce(id) ==
  /\ Cardinality(CreditsFor(id)) = 1
  /\ SumDelta(CreditsFor(id)) = deposits[id].amountUsd

C28_ApprovedIffCreditedOnce ==
  (Quiescent /\ OneAfterTheOther /\ NoneFailed) =>
    \A id \in DOMAIN deposits : (deposits[id].status = "approved") <=> CreditedOnce(id)

\* C29: in every state with no booking request in progress, every booking whose status is
\* pending, confirmed or completed has had its price debited and not refunded. (Checked
\* where it is weakest: the requests ran one after the other and none of them failed.)
C29_LiveBookingIsPaid ==
  (Quiescent /\ OneAfterTheOther /\ NoneFailed) =>
    \A id \in DOMAIN bookings :
      bookings[id].status \in {"pending", "confirmed", "completed"} =>
        /\ SumDelta(DebitsFor(id)) = 0 - bookings[id].priceUsd
        /\ RefundsFor(id) = {}

\* C30: a create-booking request answered with an error payload (any status other than
\* 201) has debited nothing and inserted no booking row.
C30_ErrorAnswerMeansNoBooking ==
  \A r \in Req :
    (rq[r].kind = "createBooking" /\ rq[r].pc = "done" /\ rq[r].code # 201) =>
      (RowsBy(r) = {} /\ DebitsBy(r) = {})

====
